---- MODULE Spec2Model ----
(***************************************************************************)
(* The payment-event ledger of questmapping/stripebuttons: the Stripe      *)
(* webhook handler (src/app/api/webhooks/stripe/route.ts), the             *)
(* log-cancellation handler (src/app/api/log-cancellation/route.ts), the   *)
(* checkout_sessions handler (src/app/api/checkout_sessions/route.ts),     *)
(* the admin read handlers (src/app/api/admin/...), the product catalog    *)
(* (src/lib/products.ts), the two PostgreSQL tables they write and read    *)
(* (src/lib/db.ts), and the admin page session: the middleware             *)
(* (src/middleware.ts) with the login and logout handlers                  *)
(* (src/app/api/auth/...).                                                 *)
(*                                                                         *)
(* Conventions.  A JavaScript string that may be undefined/null, and a     *)
(* nullable SQL text column, is a string or NULL.  A JavaScript number     *)
(* that may be undefined, and a nullable SQL integer column, is a set of   *)
(* at most one integer: {} is undefined / SQL NULL, {n} is n.  A metadata  *)
(* value holding decimal digits is the sequence of its digits.             *)
(***************************************************************************)
EXTENDS Integers, Sequences, FiniteSets, Bags, TLC

\* ------------------------------------------------------------------ bounds
\* Total number of HTTP requests (webhook deliveries, cancellation and admin
\* requests) a behaviour receives.
MaxRequests == 3

\* Number of checkout sessions a behaviour creates.
MaxCheckouts == 2

NULL == "<null>"

\* ------------------------------------------------------------ JS helpers
\* !v for a string | undefined | null
Falsy(v) == v = NULL \/ v = ""

\* a || b
OrElse(a, b) == IF Falsy(a) THEN b ELSE a

RECURSIVE ParseDigits(_, _)
ParseDigits(s, acc) ==
    IF s = <<>> THEN acc ELSE ParseDigits(Tail(s), acc * 10 + Head(s))

\* parseInt(s, 10) of a string of decimal digits
parseInt(s) == ParseDigits(s, 0)

RECURSIVE toString(_)
\* n.toString() of a non-negative integer: its decimal digits
toString(n) == IF n < 10 THEN <<n>> ELSE toString(n \div 10) \o <<n % 10>>

\* ------------------------------------------------------- product catalog
products ==
    << [id |-> "prod_20euro", name |-> "Product 20 Euro", price |-> 20, points |-> 10],
       [id |-> "prod_35euro", name |-> "Product 35 Euro", price |-> 35, points |-> 20],
       [id |-> "prod_50euro", name |-> "Product 50 Euro", price |-> 50, points |-> 30] >>

\* getProductById falling back to the first product of the catalog.
getProductByIdOrFirst(id) ==
    LET hits == {i \in 1..Len(products) : products[i].id = id}
    IN  IF hits = {} THEN {products[1]}
        ELSE {products[CHOOSE i \in hits : \A j \in hits : i <= j]}

\* products.find(p => p.id === id): {} is undefined, {p} the first match
getProductById(id) ==
    LET hits == {i \in 1..Len(products) : products[i].id = id}
    IN  IF hits = {} THEN {}
        ELSE {products[CHOOSE i \in hits : \A j \in hits : i <= j]}

\* ------------------------------------------------- the payment provider
\* The secret Stripe signs this endpoint's notifications with.
StripeEndpointSecret == "whsec_live"

\* The Stripe-Signature header value for a payload under a secret (HMAC).
Sign(secret, payload) == [secret |-> secret, payload |-> payload]

CheckoutSession(id, email, productId, sellerId, customerEmail, paymentIntent) ==
    [id |-> id,
     metadata |-> [email |-> email, productId |-> productId, sellerId |-> sellerId],
     customer_details |-> [email |-> customerEmail],
     payment_intent |-> paymentIntent]

\* Checkout sessions that exist at the provider.  A session's content is
\* fixed when it is created, so every notification for it carries the same
\* object.
checkoutSessions ==
    { \* created by /api/checkout_sessions for two customers
      CheckoutSession("cs_1", "a@x.it", "prod_20euro", <<>>, "a@x.it", "pi_1"),
      CheckoutSession("cs_2", "b@x.it", "prod_35euro", <<7>>, "b@x.it", "pi_2"),
      \* metadata without productId
      CheckoutSession("cs_3", "a@x.it", NULL, <<>>, "a@x.it", "pi_3"),
      \* no email anywhere
      CheckoutSession("cs_4", NULL, "prod_20euro", <<>>, NULL, "pi_4"),
      \* productId that is not in the catalog
      CheckoutSession("cs_5", "b@x.it", "prod_99euro", <<>>, "b@x.it", "pi_5"),
      \* metadata without email, email known to the provider
      CheckoutSession("cs_6", NULL, "prod_50euro", <<>>, "b@x.it", "pi_6") }

PaymentIntent(id, receiptEmail, customer, message) ==
    [id |-> id, receipt_email |-> receiptEmail, customer |-> customer,
     last_payment_error |-> [message |-> message]]

\* PaymentIntent.customer: null, a customer id, or an expanded customer
NoCustomer == [kind |-> "null", id |-> NULL, email |-> NULL]
CustomerId(id) == [kind |-> "string", id |-> id, email |-> NULL]
CustomerObject(id, email) == [kind |-> "object", id |-> id, email |-> email]

\* The states of payment attempt pi_1 after its first and second failure.
failedPaymentIntents ==
    { PaymentIntent("pi_1", "a@x.it", NoCustomer, "Your card was declined."),
      PaymentIntent("pi_1", NULL, CustomerObject("cus_1", "a@x.it"),
                    "Your card has insufficient funds.") }

StripeEvent(type, object) == [type |-> type, object |-> object]

\* Notifications the provider sends and signs.
stripeEvents ==
    {StripeEvent("checkout.session.completed", s) : s \in checkoutSessions}
    \cup {StripeEvent("payment_intent.payment_failed", pi) : pi \in failedPaymentIntents}
    \cup {StripeEvent("charge.refunded", [id |-> "ch_1"])}

WebhookRequest(body, sig) == [body |-> body, sig |-> sig]

TheSession(id) == CHOOSE s \in checkoutSessions : s.id = id

\* Requests that do not come unchanged from the provider: no signature
\* header, a body changed under the signature of another notification, and
\* a signature made without the endpoint secret.
forgedRequests ==
    { WebhookRequest(StripeEvent("checkout.session.completed", TheSession("cs_1")), {}),
      WebhookRequest(StripeEvent("checkout.session.completed", TheSession("cs_2")),
                     {Sign(StripeEndpointSecret,
                           StripeEvent("checkout.session.completed", TheSession("cs_1")))}),
      WebhookRequest(StripeEvent("checkout.session.completed", TheSession("cs_2")),
                     {Sign("whsec_guess",
                           StripeEvent("checkout.session.completed", TheSession("cs_2")))}) }

webhookRequests ==
    {WebhookRequest(e, {Sign(StripeEndpointSecret, e)}) : e \in stripeEvents}
    \cup forgedRequests

\* stripe.webhooks.constructEvent(buf, sig, secret): {} when it throws,
\* {event} when the signature is the one of the raw body under the secret.
constructEvent(buf, sig, secret) ==
    IF sig = Sign(secret, buf) THEN {buf} ELSE {}

\* ------------------------------------------------------------- the state
VARIABLES
    env,              \* process.env, fixed at deployment
    purchase_events,  \* table purchase_events: a set of rows
    user_points,      \* table user_points: a set of rows
    nextId,           \* the sequence behind purchase_events.id (SERIAL)
    clock,            \* CURRENT_TIMESTAMP of the database; time is counted in
                      \* the statements run on purchase_events
    awarding,         \* the executions of the webhook handler that have
                      \* recorded their event and not yet awarded its points:
                      \* a bag of [req, log]
    sent,             \* the HTTP response sent last, with its request and
                      \* what the handler logged
    awardLog,         \* per session id, how often line 55 logged an award
    requests,         \* HTTP requests received so far
    stripe,           \* the checkout sessions /api/checkout_sessions has
                      \* created at the provider
    initiated,        \* what the checkout pages hold that started them: the
                      \* body they posted and the sessionId they got back
    reading,          \* the executions of the seller-events handler between
                      \* its two queries: a set of [req, events]
    clients           \* per HTTP client, the myapp_session cookie its browser
                      \* holds, the cookies it has received, and its last
                      \* successful login or logout

vars == <<env, purchase_events, user_points, nextId, clock, awarding, sent,
          awardLog, requests, stripe, initiated, reading, clients>>

Environments ==
    [STRIPE_WEBHOOK_SECRET : {StripeEndpointSecret, NULL},
     NEXT_PUBLIC_ADMIN_API_SECRET : {"adm_public"}]

\* const webhookSecret = process.env.STRIPE_WEBHOOK_SECRET!
webhookSecret == env.STRIPE_WEBHOOK_SECRET

\* --------------------------------------------------------------- the SQL
\* What a statement leaves behind: the error it threw (NULL when it
\* returned) and the rows of the table afterwards.
SqlResult(error, rows) == [error |-> error, rows |-> rows]

\* The errors of a statement.
NotNullViolation == "violates not-null constraint"
UniqueViolation == "duplicate key value violates unique constraint"
StorageUnavailable == "connection failure"

\* The columns purchase_events declares NOT NULL, for a proposed row whose
\* seller_id is still the optional parameter value.
purchaseEventNotNull(email, status, seller_id) ==
    email # NULL /\ status # NULL /\ seller_id # {}

\* recordPurchaseEventSql as a plain INSERT on a table without the UNIQUE
\* constraint: no conflict is seen and a row is added each time.
recordPurchaseEventSqlNoConflict(rows, id, now, data) ==
    IF ~purchaseEventNotNull(data.email, data.status, data.seller_id)
    THEN SqlResult(NotNullViolation, rows)
    ELSE SqlResult(NULL,
                   rows \cup {[id |-> id, timestamp |-> now, email |-> data.email,
                               product_id |-> data.productId,
                               stripe_session_id |-> data.stripeSessionId,
                               status |-> data.status,
                               seller_id |-> CHOOSE n \in data.seller_id : TRUE,
                               points_awarded |-> data.pointsAwarded,
                               details |-> data.details]})

\* recordPurchaseEventSql with email = EXCLUDED.email and timestamp =
\* CURRENT_TIMESTAMP added to DO UPDATE SET.
recordPurchaseEventSqlAllColumns(rows, id, now, data) ==
    IF ~purchaseEventNotNull(data.email, data.status, data.seller_id)
    THEN SqlResult(NotNullViolation, rows)
    ELSE LET sid == CHOOSE n \in data.seller_id : TRUE
             conflict == {r \in rows : r.stripe_session_id = data.stripeSessionId}
             inserted == [id |-> id, timestamp |-> now, email |-> data.email,
                          product_id |-> data.productId,
                          stripe_session_id |-> data.stripeSessionId,
                          status |-> data.status, seller_id |-> sid,
                          points_awarded |-> data.pointsAwarded,
                          details |-> data.details]
             updated(r) == [r EXCEPT !.status = data.status,
                                     !.details = data.details,
                                     !.product_id = data.productId,
                                     !.seller_id = sid,
                                     !.points_awarded = data.pointsAwarded,
                                     !.email = data.email,
                                     !.timestamp = now]
         IN  IF conflict = {}
             THEN SqlResult(NULL, rows \cup {inserted})
             ELSE SqlResult(NULL, (rows \ conflict) \cup {updated(r) : r \in conflict})

\* The statement of recordPurchaseEvent, run on table rows with the
\* sequence at id and CURRENT_TIMESTAMP now.  An undefined parameter is
\* sent as NULL.  The proposed row is checked against NOT NULL before the
\* conflict on stripe_session_id is looked at.
recordPurchaseEventSql(rows, id, now, data) ==
    IF ~purchaseEventNotNull(data.email, data.status, data.seller_id)
    THEN SqlResult(NotNullViolation, rows)
    ELSE LET sid == CHOOSE n \in data.seller_id : TRUE
             conflict == {r \in rows : r.stripe_session_id = data.stripeSessionId}
             inserted == [id |-> id, timestamp |-> now, email |-> data.email,
                          product_id |-> data.productId,
                          stripe_session_id |-> data.stripeSessionId,
                          status |-> data.status, seller_id |-> sid,
                          points_awarded |-> data.pointsAwarded,
                          details |-> data.details]
             updated(r) == [r EXCEPT !.status = data.status,
                                     !.details = data.details,
                                     !.product_id = data.productId,
                                     !.seller_id = sid,
                                     !.points_awarded = data.pointsAwarded]
         IN  IF conflict = {}
             THEN SqlResult(NULL, rows \cup {inserted})
             ELSE SqlResult(NULL, (rows \ conflict) \cup {updated(r) : r \in conflict})

\* updateUserPointsSql with SET total_points = EXCLUDED.total_points: the
\* stored total is replaced, not added to.
updateUserPointsSqlReplace(rows, now, email, pointsToAdd) ==
    (rows \ {r \in rows : r.email = email})
    \cup {[email |-> email, total_points |-> pointsToAdd, last_updated |-> now]}

\* The statement of updateUserPoints.
updateUserPointsSql(rows, now, email, pointsToAdd) ==
    LET conflict == {r \in rows : r.email = email}
    IN  IF conflict = {}
        THEN rows \cup {[email |-> email, total_points |-> pointsToAdd,
                         last_updated |-> now]}
        ELSE (rows \ conflict)
             \cup {[r EXCEPT !.total_points = r.total_points + pointsToAdd,
                             !.last_updated = now] : r \in conflict}

\* logCancellationSql with the ON CONFLICT (stripe_session_id) DO UPDATE of
\* recordPurchaseEvent added to its INSERT.
logCancellationSqlUpsert(rows, id, now, values) ==
    LET conflict == {r \in rows : r.stripe_session_id = values.stripeSessionId}
    IN  IF conflict = {}
        THEN SqlResult(NULL,
                       rows \cup {[id |-> id, timestamp |-> now, email |-> values.email,
                                   product_id |-> values.productId,
                                   stripe_session_id |-> values.stripeSessionId,
                                   status |-> values.status, seller_id |-> 0,
                                   points_awarded |-> values.pointsAwarded,
                                   details |-> values.details]})
        ELSE SqlResult(NULL,
                       (rows \ conflict)
                       \cup {[r EXCEPT !.status = values.status,
                                       !.details = values.details,
                                       !.product_id = values.productId,
                                       !.points_awarded = values.pointsAwarded]
                             : r \in conflict})

\* The statement of log-cancellation: a plain INSERT, seller_id left to its
\* DEFAULT 0, rejected when stripe_session_id is already there (UNIQUE).
logCancellationSql(rows, id, now, values) ==
    IF \E r \in rows : r.stripe_session_id = values.stripeSessionId
    THEN SqlResult(UniqueViolation, rows)
    ELSE SqlResult(NULL,
                   rows \cup {[id |-> id, timestamp |-> now, email |-> values.email,
                               product_id |-> values.productId,
                               stripe_session_id |-> values.stripeSessionId,
                               status |-> values.status, seller_id |-> 0,
                               points_awarded |-> values.pointsAwarded,
                               details |-> values.details]})

\* --------------------------------------------------- the webhook handler
\* const email = session.metadata?.email || session.customer_details?.email
sessionEmail(session) ==
    OrElse(session.metadata.email, session.customer_details.email)

\* const sellerId = parseInt(session.metadata?.sellerId || '0', 10)
sessionSellerId(session) ==
    parseInt(IF session.metadata.sellerId = <<>> THEN <<0>>
             ELSE session.metadata.sellerId)

\* const pointsToAward = product.points, on the branch that reaches it
pointsToAward(session) ==
    LET product == getProductById(session.metadata.productId)
    IN  IF Falsy(sessionEmail(session)) \/ Falsy(session.metadata.productId)
           \/ product = {}
        THEN 0
        ELSE (CHOOSE p \in product : TRUE).points

\* completedEventData keyed by the payment attempt of the session.
completedEventDataByPaymentIntent(session) ==
    LET email == sessionEmail(session)
        productId == session.metadata.productId
        sellerId == sessionSellerId(session)
        product == getProductById(productId)
    IN  IF Falsy(email) \/ Falsy(productId)
        THEN [email |-> OrElse(email, "unknown@example.com"),
              stripeSessionId |-> session.payment_intent,
              status |-> "ERROR_MISSING_METADATA",
              productId |-> productId,
              seller_id |-> {sellerId},
              pointsAwarded |-> {},
              details |-> [error |-> "Email or productId not found in session metadata"]]
        ELSE IF product = {}
        THEN [email |-> email,
              stripeSessionId |-> session.payment_intent,
              status |-> "ERROR_PRODUCT_NOT_FOUND",
              productId |-> productId,
              seller_id |-> {sellerId},
              pointsAwarded |-> {},
              details |-> [error |-> "Product ID not found.", productId |-> productId]]
        ELSE LET p == CHOOSE q \in product : TRUE
             IN  [email |-> email,
                  productId |-> productId,
                  seller_id |-> {sellerId},
                  stripeSessionId |-> session.payment_intent,
                  status |-> "PAYMENT_SUCCESS",
                  pointsAwarded |-> {p.points},
                  details |-> [product_name |-> p.name, price_paid |-> p.price,
                               payment_intent |-> session.payment_intent]]

\* The argument of recordPurchaseEvent on the three branches of
\* case 'checkout.session.completed'.
completedEventData(session) ==
    LET email == sessionEmail(session)
        productId == session.metadata.productId
        sellerId == sessionSellerId(session)
        product == getProductById(productId)
    IN  IF Falsy(email) \/ Falsy(productId)
        THEN [email |-> OrElse(email, "unknown@example.com"),
              stripeSessionId |-> session.id,
              status |-> "ERROR_MISSING_METADATA",
              productId |-> productId,
              seller_id |-> {sellerId},
              pointsAwarded |-> {},
              details |-> [error |-> "Email or productId not found in session metadata"]]
        ELSE IF product = {}
        THEN [email |-> email,
              stripeSessionId |-> session.id,
              status |-> "ERROR_PRODUCT_NOT_FOUND",
              productId |-> productId,
              seller_id |-> {sellerId},
              pointsAwarded |-> {},
              details |-> [error |-> "Product ID not found.", productId |-> productId]]
        ELSE LET p == CHOOSE q \in product : TRUE
             IN  [email |-> email,
                  productId |-> productId,
                  seller_id |-> {sellerId},
                  stripeSessionId |-> session.id,
                  status |-> "PAYMENT_SUCCESS",
                  pointsAwarded |-> {p.points},
                  details |-> [product_name |-> p.name, price_paid |-> p.price,
                               payment_intent |-> session.payment_intent]]

\* let emailForFailedPI = 'unknown@example.com'; if (receipt_email) ...
emailForFailedPI(pi) ==
    IF ~Falsy(pi.receipt_email) THEN pi.receipt_email
    ELSE IF pi.customer.kind = "string" THEN "unknown@example.com"
    ELSE IF pi.customer.kind = "object" /\ ~Falsy(pi.customer.email)
    THEN pi.customer.email
    ELSE "unknown@example.com"

\* The argument of recordPurchaseEvent in case
\* 'payment_intent.payment_failed': no productId, seller_id, pointsAwarded.
failedEventData(pi) ==
    [email |-> emailForFailedPI(pi),
     productId |-> NULL,
     seller_id |-> {},
     stripeSessionId |-> pi.id,
     status |-> "PAYMENT_FAILED",
     pointsAwarded |-> {},
     details |-> [reason |-> pi.last_payment_error.message,
                  payment_intent_id |-> pi.id]]

eventData(event) ==
    IF event.type = "checkout.session.completed"
    THEN completedEventData(event.object)
    ELSE failedEventData(event.object)

\* The ledger key of a notification the handler records.
eventKey(event) == event.object.id

\* console.error('Failed to record purchase event:', dbError, ...)
RecordFailed(dbError) == [line |-> "Failed to record purchase event", dbError |-> dbError]

\* console.error(`Failed to update points for ...`, dbError)
PointsFailed(dbError) == [line |-> "Failed to update points", dbError |-> dbError]

\* sql(query, params) of recordPurchaseEvent: the statement when the
\* storage is up, a thrown connection error when it is not.
recordPurchaseEvent(up, rows, id, now, data) ==
    IF up THEN recordPurchaseEventSql(rows, id, now, data)
    ELSE SqlResult(StorageUnavailable, rows)

\* earlyResponse with the event parsed from the body and the signature
\* never compared.
earlyResponseUnverified(r, secret) ==
    IF r.sig = {} THEN 400
    ELSE IF Falsy(secret) THEN 500
    ELSE IF r.body.type \in {"checkout.session.completed",
                             "payment_intent.payment_failed"}
    THEN 0
    ELSE 200

\* earlyResponse with verification skipped when no secret is set: the
\* event is taken from the body as it came.
earlyResponseOpenWhenUnconfigured(r, secret) ==
    IF r.sig = {} THEN 400
    ELSE IF ~Falsy(secret)
            /\ constructEvent(r.body, CHOOSE g \in r.sig : TRUE, secret) = {}
    THEN 400
    ELSE IF r.body.type \in {"checkout.session.completed",
                             "payment_intent.payment_failed"}
    THEN 0
    ELSE 200

\* earlyResponse with a default case that rejects the event type.
earlyResponseUnknownRejected(r, secret) ==
    IF r.sig = {} THEN 400
    ELSE IF Falsy(secret) THEN 500
    ELSE IF constructEvent(r.body, CHOOSE g \in r.sig : TRUE, secret) = {} THEN 400
    ELSE IF r.body.type \in {"checkout.session.completed",
                             "payment_intent.payment_failed"}
    THEN 0
    ELSE 400

\* POST before its first statement: the response status when the handler
\* returns there (the header and secret checks, constructEvent, the
\* default case of the switch), 0 when it goes on to recordPurchaseEvent.
earlyResponse(r, secret) ==
    IF r.sig = {} THEN 400
    ELSE IF Falsy(secret) THEN 500
    ELSE IF constructEvent(r.body, CHOOSE g \in r.sig : TRUE, secret) = {} THEN 400
    ELSE IF r.body.type \in {"checkout.session.completed",
                             "payment_intent.payment_failed"}
    THEN 0
    ELSE 200

\* Whether the handler awards points after recordPurchaseEvent: the
\* success branch with pointsToAward > 0.
awardsPoints(event) ==
    /\ event.type = "checkout.session.completed"
    /\ eventData(event).status = "PAYMENT_SUCCESS"
    /\ pointsToAward(event.object) > 0

\* An HTTP exchange: the endpoint, the request, the response status and
\* what the handler logged.
Response(endpoint, r, status, log) ==
    [endpoint |-> endpoint, req |-> {r}, status |-> status, log |-> log]

NoResponse == [endpoint |-> NULL, req |-> {}, status |-> 0, log |-> {}]

\* An execution of the webhook handler between recordPurchaseEvent and
\* updateUserPoints.
Execution(r, log) == [req |-> r, log |-> log]

\* POST, from the request to the return of recordPurchaseEvent, and to
\* the response when the handler does not go on to award points.  storage
\* holds the states the storage can be in: TRUE is up, FALSE is unavailable.
WebhookPost(r, storage) ==
    /\ requests < MaxRequests
    /\ requests' = requests + 1
    /\ LET early == earlyResponse(r, webhookSecret)
       IN  \/ /\ early # 0
              /\ sent' = Response("webhook", r, early, {})
              /\ UNCHANGED <<purchase_events, nextId, clock, awarding>>
           \/ /\ early = 0
              /\ \E up \in storage :
                   LET res == recordPurchaseEvent(up, purchase_events, nextId, clock,
                                                  eventData(r.body))
                       log == IF res.error = NULL THEN {}
                              ELSE {RecordFailed(res.error)}
                   IN  /\ purchase_events' = res.rows
                       /\ nextId' = IF up THEN nextId + 1 ELSE nextId
                       /\ clock' = IF up THEN clock + 1 ELSE clock
                       /\ IF awardsPoints(r.body)
                          THEN /\ awarding' = awarding (+) SetToBag({Execution(r, log)})
                               /\ UNCHANGED sent
                          ELSE /\ sent' = Response("webhook", r, 200, log)
                               /\ UNCHANGED awarding
    /\ UNCHANGED <<env, user_points, awardLog, stripe, initiated, reading, clients>>

\* sql(query, params) of updateUserPoints.
updateUserPoints(up, rows, now, email, pointsToAdd) ==
    IF up THEN SqlResult(NULL, updateUserPointsSql(rows, now, email, pointsToAdd))
    ELSE SqlResult(StorageUnavailable, rows)

\* responseAfterAward with the error of updateUserPoints thrown on to the
\* catch of POST.
responseAfterAwardRethrown(error) == IF error = NULL THEN 200 ELSE 500

\* The status of the response that follows updateUserPoints, whose catch
\* has logged error: return NextResponse.json({ received: true }).
responseAfterAward(error) == 200

\* await updateUserPoints(email, pointsToAward, session.id), its log line,
\* and the final response.
WebhookAward(x, storage) ==
    /\ BagIn(x, awarding)
    /\ \E up \in storage :
         LET session == x.req.body.object
             res == updateUserPoints(up, user_points, clock,
                                     sessionEmail(session), pointsToAward(session))
         IN  /\ user_points' = res.rows
             /\ awardLog' = IF res.error = NULL
                            THEN [awardLog EXCEPT ![session.id] = @ + 1]
                            ELSE awardLog
             /\ sent' = Response("webhook", x.req, responseAfterAward(res.error),
                                 x.log \cup (IF res.error = NULL THEN {}
                                             ELSE {PointsFailed(res.error)}))
    /\ awarding' = awarding (-) SetToBag({x})
    /\ UNCHANGED <<env, purchase_events, nextId, clock, requests, stripe, initiated,
                   reading, clients>>

\* ------------------------------------------ the log-cancellation handler
CancellationRequest(secret, email, productId, stripeSessionId) ==
    [secret |-> secret, email |-> email, productId |-> productId,
     stripeSessionId |-> stripeSessionId]

\* Requests of the checkout page and of other clients: the header
\* X-Admin-API-Secret and the JSON body.
cancellationRequests ==
    { CancellationRequest("adm_public", "b@x.it", "prod_50euro", "cs_1"),
      CancellationRequest("adm_public", "a@x.it", "prod_20euro", "pi_1"),
      CancellationRequest("adm_guess", "a@x.it", "prod_20euro", "cs_2"),
      CancellationRequest(NULL, "a@x.it", "prod_20euro", "cs_2"),
      CancellationRequest("adm_public", NULL, "prod_20euro", "cs_2"),
      CancellationRequest("adm_public", "a@x.it", "prod_99euro", "cs_2") }

\* cancellationEarlyResponse without the comparison of the secret.
cancellationEarlyResponseOpen(r, expectedSecret) ==
    IF Falsy(r.email) \/ Falsy(r.productId) \/ Falsy(r.stripeSessionId) THEN 400
    ELSE IF getProductById(r.productId) = {} THEN 400
    ELSE 0

\* POST before its statement: the response status when the handler
\* returns there (the secret, the required fields, the product), 0 when it
\* goes on to the INSERT.
cancellationEarlyResponse(r, expectedSecret) ==
    IF Falsy(expectedSecret) \/ r.secret # expectedSecret THEN 401
    ELSE IF Falsy(r.email) \/ Falsy(r.productId) \/ Falsy(r.stripeSessionId) THEN 400
    ELSE IF getProductById(r.productId) = {} THEN 400
    ELSE 0

\* The values of the INSERT of log-cancellation.
cancellationValues(req) ==
    LET product == CHOOSE p \in getProductById(req.productId) : TRUE
    IN  [email |-> req.email,
         productId |-> req.productId,
         pointsAwarded |-> {0},
         stripeSessionId |-> req.stripeSessionId,
         status |-> "cancelled_by_user",
         details |-> [product_name |-> product.name, price_paid |-> product.price,
                      reason |-> "User clicked cancel on Stripe page"]]

\* sql(queryText, values) of log-cancellation.
logCancellation(up, rows, id, now, values) ==
    IF up THEN logCancellationSql(rows, id, now, values)
    ELSE SqlResult(StorageUnavailable, rows)

\* POST of log-cancellation: the checks, the INSERT, 200 when it returns
\* and 500 from the catch.
CancellationPost(r, storage) ==
    /\ requests < MaxRequests
    /\ requests' = requests + 1
    /\ LET early == cancellationEarlyResponse(r, env.NEXT_PUBLIC_ADMIN_API_SECRET)
       IN  \/ /\ early # 0
              /\ sent' = Response("log-cancellation", r, early, {})
              /\ UNCHANGED <<purchase_events, nextId, clock>>
           \/ /\ early = 0
              /\ \E up \in storage :
                   LET res == logCancellation(up, purchase_events, nextId, clock,
                                              cancellationValues(r))
                   IN  /\ purchase_events' = res.rows
                       /\ nextId' = IF up THEN nextId + 1 ELSE nextId
                       /\ clock' = IF up THEN clock + 1 ELSE clock
                       /\ sent' = Response("log-cancellation", r,
                                           IF res.error = NULL THEN 200 ELSE 500,
                                           IF res.error = NULL THEN {}
                                           ELSE {[line |-> "Error logging cancellation event",
                                                  dbError |-> res.error]})
    /\ UNCHANGED <<env, user_points, awarding, awardLog, stripe, initiated, reading,
                   clients>>

\* ------------------------------------------ the checkout_sessions handler
\* The JSON body of POST /api/checkout_sessions: email, productId and
\* sellerId as the checkout page sends them, and the points and price a
\* client may put next to them ({} when it does not).
CheckoutRequest(email, productId, sellerId, points, price) ==
    [email |-> email, productId |-> productId, sellerId |-> sellerId,
     points |-> points, price |-> price]

checkoutRequests ==
    { CheckoutRequest("a@x.it", "prod_20euro", <<7>>, {}, {}),
      CheckoutRequest("a@x.it", "prod_20euro", <<7>>, {9999}, {1}),
      CheckoutRequest("b@x.it", "prod_35euro", <<>>, {}, {}),
      CheckoutRequest(NULL, "prod_20euro", <<>>, {}, {}),
      CheckoutRequest("a@x.it", "prod_99euro", <<>>, {}, {}) }

\* checkoutEarlyResponse answering an unknown product as log-cancellation
\* does.
checkoutEarlyResponseBadRequest(body) ==
    IF Falsy(body.email) \/ Falsy(body.productId) THEN 400
    ELSE IF getProductById(body.productId) = {} THEN 400
    ELSE 0

\* POST before stripe.checkout.sessions.create: the response status when
\* the handler returns there, 0 when it goes on to create the session.
checkoutEarlyResponse(body) ==
    IF Falsy(body.email) \/ Falsy(body.productId) THEN 400
    ELSE IF getProductById(body.productId) = {} THEN 404
    ELSE 0

\* checkoutSessionParams charging the price the body names, when it names
\* one.
checkoutSessionParamsClientPrice(body) ==
    LET product == CHOOSE p \in getProductById(body.productId) : TRUE
        price == IF body.price = {} THEN product.price
                 ELSE CHOOSE n \in body.price : TRUE
    IN  [unit_amount |-> price * 100,
         quantity |-> 1,
         customer_email |-> body.email,
         metadata |-> [email |-> body.email, productId |-> body.productId,
                       points |-> toString(product.points)]]

\* The argument of stripe.checkout.sessions.create.
checkoutSessionParams(body) ==
    LET product == CHOOSE p \in getProductById(body.productId) : TRUE
    IN  [unit_amount |-> product.price * 100,
         quantity |-> 1,
         customer_email |-> body.email,
         metadata |-> [email |-> body.email, productId |-> body.productId,
                       points |-> toString(product.points)]]

\* The identifiers the provider gives to the n-th session it creates.
stripeIds ==
    << [session |-> "cs_1", payment_intent |-> "pi_1"],
       [session |-> "cs_2", payment_intent |-> "pi_2"],
       [session |-> "cs_3", payment_intent |-> "pi_3"],
       [session |-> "cs_4", payment_intent |-> "pi_4"] >>

\* metadata?.key of a session: the value, or the empty value of a key the
\* metadata does not have.
metadataValue(metadata, key, absent) ==
    IF key \in DOMAIN metadata THEN metadata[key] ELSE absent

\* The session object the provider keeps for the parameters of
\* stripe.checkout.sessions.create, and puts into its notifications.  The
\* customer cannot change a pre-filled customer_email.
stripeSession(ids, params) ==
    [id |-> ids.session,
     amount_total |-> params.unit_amount * params.quantity,
     metadata |-> [email |-> metadataValue(params.metadata, "email", NULL),
                   productId |-> metadataValue(params.metadata, "productId", NULL),
                   sellerId |-> metadataValue(params.metadata, "sellerId", <<>>),
                   points |-> metadataValue(params.metadata, "points", <<>>)],
     customer_details |-> [email |-> params.customer_email],
     payment_intent |-> ids.payment_intent]

\* A session made at the provider by another client of the account than
\* this application: its metadata names points the catalog does not give.
otherSessions ==
    { [id |-> "cs_6",
       amount_total |-> 2000,
       metadata |-> [email |-> "a@x.it", productId |-> "prod_20euro",
                     sellerId |-> <<>>, points |-> <<9, 9, 9>>],
       customer_details |-> [email |-> "a@x.it"],
       payment_intent |-> "pi_6"] }

\* The checkout.session.completed notification of a session, as the
\* provider signs and sends it once the customer has paid.
completedNotification(session) ==
    LET e == StripeEvent("checkout.session.completed", session)
    IN  WebhookRequest(e, {Sign(StripeEndpointSecret, e)})

\* POST of checkout_sessions: the checks, the session created at the
\* provider, 200 with its sessionId, 500 from the catch when the provider
\* call throws.  provider holds the states the provider's API can be in.
CheckoutPost(body, provider) ==
    /\ Cardinality(stripe) < MaxCheckouts
    /\ LET early == checkoutEarlyResponse(body)
       IN  \/ /\ early # 0
              /\ sent' = Response("checkout_sessions", body, early, {})
              /\ UNCHANGED <<stripe, initiated>>
           \/ /\ early = 0
              /\ \E ok \in provider :
                   IF ok
                   THEN LET session == stripeSession(stripeIds[Cardinality(stripe) + 1],
                                                     checkoutSessionParams(body))
                        IN  /\ stripe' = stripe \cup {session}
                            /\ initiated' = initiated
                                   \cup {[body |-> body, sessionId |-> session.id]}
                            /\ sent' = Response("checkout_sessions", body, 200, {})
                   ELSE /\ sent' = Response("checkout_sessions", body, 500,
                                            {[line |-> "Stripe session creation error",
                                              dbError |-> NULL]})
                        /\ UNCHANGED <<stripe, initiated>>
    /\ UNCHANGED <<env, purchase_events, user_points, nextId, clock, awarding,
                   awardLog, requests, reading, clients>>

\* ------------------------------------------------ the admin read handlers
\* process.env of a deployment whose admin endpoints are looked at.
AdminEnvironments ==
    [STRIPE_WEBHOOK_SECRET : {StripeEndpointSecret},
     NEXT_PUBLIC_ADMIN_API_SECRET : {"adm_public"},
     NODE_ENV : {"production", "development", "test"},
     ADMIN_API_SECRET : {"adm_secret", NULL}]

\* const ADMIN_SECRET = process.env.ADMIN_API_SECRET || 'your-admin-api-secret'
\* of events/all, user/events and user/points
ADMIN_SECRET == OrElse(env.ADMIN_API_SECRET, "your-admin-api-secret")

\* const ADMIN_API_SECRET = process.env.ADMIN_API_SECRET ||
\* 'your-admin-api-secret-key' of events/seller
ADMIN_API_SECRET == OrElse(env.ADMIN_API_SECRET, "your-admin-api-secret-key")

\* A GET on an admin endpoint: the X-Admin-Secret header and the query
\* parameters secret, email, sellerId and monthYear (NULL or <<>> when
\* absent).  monthYear is given by its parts between the '-'.
AdminRequest(endpoint, header, secret, email, sellerId, monthYear) ==
    [endpoint |-> endpoint, header |-> header, secret |-> secret, email |-> email,
     sellerId |-> sellerId, monthYear |-> monthYear]

June2025 == << <<2, 0, 2, 5>>, <<0, 6>> >>
July2025 == << <<2, 0, 2, 5>>, <<0, 7>> >>

adminRequests ==
    { AdminRequest("events/all", "adm_secret", NULL, NULL, <<>>, <<>>),
      AdminRequest("events/all", NULL, "adm_secret", NULL, <<>>, <<>>),
      AdminRequest("events/all", "adm_guess", NULL, NULL, <<>>, <<>>),
      AdminRequest("events/all", "your-admin-api-secret", NULL, NULL, <<>>, <<>>),
      AdminRequest("user/events", "adm_secret", NULL, "a@x.it", <<>>, <<>>),
      AdminRequest("user/events", NULL, NULL, "a@x.it", <<>>, <<>>),
      AdminRequest("user/events", "adm_secret", NULL, NULL, <<>>, <<>>),
      AdminRequest("user/points", "adm_secret", NULL, "b@x.it", <<>>, <<>>),
      AdminRequest("user/points", NULL, "adm_guess", "b@x.it", <<>>, <<>>),
      AdminRequest("user/points", "adm_secret", NULL, NULL, <<>>, <<>>),
      AdminRequest("events/seller", "adm_secret", NULL, NULL, <<7>>, <<>>),
      AdminRequest("events/seller", "adm_secret", NULL, NULL, <<0>>, July2025),
      AdminRequest("events/seller", "adm_secret", NULL, NULL, <<0>>, June2025),
      AdminRequest("events/seller", "adm_guess", NULL, NULL, <<7>>, <<>>),
      AdminRequest("events/seller", "your-admin-api-secret-key", NULL, NULL, <<7>>, <<>>),
      AdminRequest("events/seller", "adm_secret", NULL, NULL, <<>>, <<>>),
      AdminRequest("events/seller", "adm_secret", NULL, NULL, <<7>>, << <<2, 0, 2, 5>> >>) }

\* The response of an admin handler: status and JSON body.
AdminResponse(r, status, body) ==
    [endpoint |-> r.endpoint, req |-> {r}, status |-> status, log |-> {},
     body |-> body]

\* The secret checks of events/all, user/events and user/points.
readAuthorizationProductionOnly(r) ==
    LET secret == OrElse(r.header, r.secret)
    IN  IF env.NODE_ENV = "production" /\ secret # ADMIN_SECRET THEN 401
        ELSE 0

\* const secret = header || query; the two NODE_ENV checks of events/all,
\* user/events and user/points: 401, or 0 when the handler goes on.
readAuthorization(r) ==
    LET secret == OrElse(r.header, r.secret)
    IN  IF env.NODE_ENV = "production" /\ secret # ADMIN_SECRET THEN 401
        ELSE IF env.NODE_ENV # "development" /\ secret # ADMIN_SECRET THEN 401
        ELSE 0

\* EXTRACT(YEAR FROM timestamp), EXTRACT(MONTH FROM timestamp): the first
\* statement of the ledger runs in June 2025, the later ones in July.
calendar(timestamp) ==
    [year |-> 2025, month |-> IF timestamp = 1 THEN 6 ELSE 7]

RECURSIVE orderByTimestampDesc(_)
\* ORDER BY timestamp DESC
orderByTimestampDesc(rows) ==
    IF rows = {} THEN <<>>
    ELSE LET r == CHOOSE x \in rows : \A y \in rows : y.timestamp <= x.timestamp
         IN  <<r>> \o orderByTimestampDesc(rows \ {r})

\* GET of events/all.
allEvents(r, up, rows) ==
    IF readAuthorization(r) # 0
    THEN AdminResponse(r, 401, [error |-> "Unauthorized"])
    ELSE IF ~up
    THEN AdminResponse(r, 500, [message |-> "Failed to fetch purchase events."])
    ELSE AdminResponse(r, 200, [rows |-> orderByTimestampDesc(rows)])

\* GET of user/events.
userEvents(r, up, rows) ==
    IF readAuthorization(r) # 0
    THEN AdminResponse(r, 401, [error |-> "Unauthorized"])
    ELSE IF Falsy(r.email)
    THEN AdminResponse(r, 400, [error |-> "Email query parameter is required."])
    ELSE IF ~up
    THEN AdminResponse(r, 500, [message |-> "Failed to fetch purchase events for user."])
    ELSE AdminResponse(r, 200,
            [rows |-> orderByTimestampDesc({e \in rows : e.email = r.email})])

\* GET of user/points.
userPoints(r, up, rows) ==
    IF readAuthorization(r) # 0
    THEN AdminResponse(r, 401, [error |-> "Unauthorized"])
    ELSE IF Falsy(r.email)
    THEN AdminResponse(r, 400, [error |-> "Email query parameter is required."])
    ELSE IF ~up
    THEN AdminResponse(r, 500, [message |-> "Failed to fetch points for user."])
    ELSE LET found == {b \in rows : b.email = r.email}
         IN  IF found = {}
             THEN AdminResponse(r, 200,
                      [email |-> r.email, total_points |-> 0,
                       message |-> "User not found or has no points record."])
             ELSE AdminResponse(r, 200,
                      [total_points |-> (CHOOSE b \in found : TRUE).total_points])

\* GET of events/all, user/events or user/points: one query, one response.
AdminRead(r, storage) ==
    /\ r.endpoint \in {"events/all", "user/events", "user/points"}
    /\ requests < MaxRequests
    /\ requests' = requests + 1
    /\ \E up \in storage :
          sent' = CASE r.endpoint = "events/all" -> allEvents(r, up, purchase_events)
                    [] r.endpoint = "user/events" -> userEvents(r, up, purchase_events)
                    [] r.endpoint = "user/points" -> userPoints(r, up, user_points)
    /\ UNCHANGED <<env, purchase_events, user_points, nextId, clock, awarding,
                   awardLog, stripe, initiated, reading, clients>>

\* GET of events/seller before its queries: 401, 400 for a missing
\* sellerId or a monthYear that is not two numbers, 0 when it goes on.
sellerEarlyResponse(r) ==
    IF r.header # ADMIN_API_SECRET THEN 401
    ELSE IF r.sellerId = <<>> THEN 400
    ELSE IF r.monthYear # <<>>
            /\ ~(Len(r.monthYear) = 2 /\ r.monthYear[1] # <<>> /\ r.monthYear[2] # <<>>)
    THEN 400
    ELSE 0

\* WHERE seller_id = $1 AND status = 'PAYMENT_SUCCESS'${timeFilter}, the
\* time filter added if (year && month).
sellerFilter(r, rows) ==
    LET year == IF r.monthYear = <<>> THEN 0 ELSE parseInt(r.monthYear[1])
        month == IF r.monthYear = <<>> THEN 0 ELSE parseInt(r.monthYear[2])
    IN  {e \in rows :
            /\ e.seller_id = parseInt(r.sellerId)
            /\ e.status = "PAYMENT_SUCCESS"
            /\ (year # 0 /\ month # 0)
                  => (calendar(e.timestamp).year = year
                      /\ calendar(e.timestamp).month = month)}

\* GET of events/seller up to the return of eventsQuery.
SellerEventsQuery(r, storage) ==
    /\ r.endpoint = "events/seller"
    /\ requests < MaxRequests
    /\ requests' = requests + 1
    /\ LET early == sellerEarlyResponse(r)
       IN  \/ /\ early # 0
              /\ sent' = AdminResponse(r, early,
                             [message |-> IF early = 401 THEN "Unauthorized"
                                          ELSE "Bad Request"])
              /\ UNCHANGED reading
           \/ /\ early = 0
              /\ \E up \in storage :
                   IF up
                   THEN /\ reading' = reading \cup
                              {[req |-> r,
                                events |-> orderByTimestampDesc(
                                               sellerFilter(r, purchase_events))]}
                        /\ UNCHANGED sent
                   ELSE /\ sent' = AdminResponse(r, 500,
                                       [message |-> "Failed to fetch seller events."])
                        /\ UNCHANGED reading
    /\ UNCHANGED <<env, purchase_events, user_points, nextId, clock, awarding,
                   awardLog, stripe, initiated,
                   clients>>

RECURSIVE SumOfPrices(_)
\* The sum of details.price_paid over rows.
SumOfPrices(rows) ==
    IF rows = {} THEN 0
    ELSE LET r == CHOOSE x \in rows : TRUE
         IN  r.details.price_paid + SumOfPrices(rows \ {r})

\* SELECT SUM((details->>'price_paid')::numeric): {} is the NULL of no row.
sumPricePaid(rows) ==
    IF rows = {} THEN {}
    ELSE {SumOfPrices(rows)}

\* GET of events/seller from totalQuery to the response.
SellerEventsTotal(x, storage) ==
    /\ x \in reading
    /\ reading' = reading \ {x}
    /\ \E up \in storage :
          IF up
          THEN LET total_volume == sumPricePaid(sellerFilter(x.req, purchase_events))
               IN  sent' = AdminResponse(x.req, 200,
                              [events |-> x.events,
                               totalVolume |-> IF total_volume = {} THEN 0
                                               ELSE CHOOSE n \in total_volume : TRUE])
          ELSE sent' = AdminResponse(x.req, 500,
                          [message |-> "Failed to fetch seller events."])
    /\ UNCHANGED <<env, purchase_events, user_points, nextId, clock, awarding,
                   awardLog, requests, stripe, initiated,
                   clients>>

\* ------------------------------------------------- the admin page session
\* process.env of a deployment whose admin page is looked at.
AuthEnvironments ==
    [ADMIN_AUTH_ENABLED : {"true", "false"},
     ADMIN_USERNAME : {"admin", NULL},
     ADMIN_PASSWORD : {"hunter2"},
     SESSION_SECRET : {"sess_secret", NULL}]

\* The HTTP clients of the admin page.
Clients == {"c1", "c2"}

\* SessionData: isAdmin?: boolean.
EmptySession == [isAdmin |-> {}]
AdminSession == [isAdmin |-> {TRUE}]

\* The myapp_session cookie: session data sealed with a password, or none
\* (sealed by nobody).  The seal is the whole session; the server keeps no
\* record of it.
Seal(password, data) == [password |-> password, data |-> data]
NoCookie == Seal(NULL, EmptySession)

\* getIronSession throws without sessionOptions.password.
sessionThrows(password) == Falsy(password)

\* getIronSession(cookies, sessionOptions): the data of a cookie sealed with
\* the password, the empty session for no cookie and for any other value.
ironSession(cookie, password) ==
    IF cookie # NoCookie /\ cookie.password = password
    THEN cookie.data
    ELSE EmptySession

\* A client at its first request.
NewClient == [jar |-> NoCookie, kept |-> {}, last |-> "none"]

\* The Cookie header a client can send: what its browser holds, a value it
\* received earlier, nothing, or a value sealed with a guessed password.
presentable(c) ==
    {clients[c].jar, NoCookie, Seal("guess", AdminSession)} \cup clients[c].kept

\* The JSON bodies of POST /api/auth/login.
loginBodies ==
    { [username |-> "admin", password |-> "hunter2"],
      [username |-> "admin", password |-> "wrong"],
      [username |-> "root", password |-> "hunter2"],
      [username |-> NULL, password |-> NULL] }

LoginRequest(c, body) == [client |-> c, body |-> body]

\* POST of auth/login: the response status.
loginResponse(body) ==
    IF env.ADMIN_AUTH_ENABLED # "true" THEN 403
    ELSE IF Falsy(env.ADMIN_USERNAME) \/ Falsy(env.ADMIN_PASSWORD) THEN 500
    ELSE IF body.username = env.ADMIN_USERNAME /\ body.password = env.ADMIN_PASSWORD
    THEN (IF sessionThrows(env.SESSION_SECRET) THEN 500 ELSE 200)
    ELSE 401

\* POST of auth/login: session.isAdmin = true and session.save() when the
\* credentials are the configured ones; the browser stores the cookie of
\* the response.
LoginPost(c, body) ==
    LET status == loginResponse(body)
        cookie == Seal(env.SESSION_SECRET, AdminSession)
    IN  /\ sent' = Response("auth/login", LoginRequest(c, body), status, {})
        /\ clients' = IF status = 200
                      THEN [clients EXCEPT ![c] = [jar |-> cookie,
                                                   kept |-> @.kept \cup {cookie},
                                                   last |-> "login"]]
                      ELSE clients
        /\ UNCHANGED <<env, purchase_events, user_points, nextId, clock, awarding,
                       awardLog, requests, stripe, initiated, reading>>

\* POST of auth/logout: the response status.
logoutResponse ==
    IF env.ADMIN_AUTH_ENABLED # "true" THEN 403
    ELSE IF sessionThrows(env.SESSION_SECRET) THEN 500
    ELSE 200

\* POST of auth/logout: session.destroy() has the response tell the browser
\* to drop its cookie.
LogoutPost(c) ==
    /\ sent' = Response("auth/logout", [client |-> c], logoutResponse, {})
    /\ clients' = IF logoutResponse = 200
                  THEN [clients EXCEPT ![c].jar = NoCookie, ![c].last = "logout"]
                  ELSE clients
    /\ UNCHANGED <<env, purchase_events, user_points, nextId, clock, awarding,
                   awardLog, requests, stripe, initiated, reading>>

\* request.nextUrl.pathname, as its segments.
pagePaths ==
    { <<"admin">>, <<"admin", "events">>, <<"api", "admin", "events", "all">>,
      <<"login">> }

\* config.matcher: '/api/:path*' and '/admin/:path*'.
matcher(pathname) == pathname[1] \in {"api", "admin"}

\* pathname.startsWith('/admin'), of a pathname the matcher lets in.
startsWithAdmin(pathname) == pathname[1] = "admin"

PageRequest(c, pathname, cookie) ==
    [client |-> c, pathname |-> pathname, cookie |-> cookie]

\* What the middleware does with a request: the redirect to /login, or
\* NextResponse.next() (status 0: the route answers).
MiddlewareResponse(r, redirect) ==
    [endpoint |-> "middleware", req |-> {r},
     status |-> IF redirect THEN 307 ELSE 0,
     log |-> {},
     location |-> IF redirect THEN <<"login">> ELSE <<>>]

\* The admin authentication of middleware: whether it redirects.
redirectsToLogin(pathname, cookie) ==
    /\ matcher(pathname)
    /\ startsWithAdmin(pathname)
    /\ env.ADMIN_AUTH_ENABLED = "true"
    /\ \/ sessionThrows(env.SESSION_SECRET)
       \/ ironSession(cookie, env.SESSION_SECRET).isAdmin # {TRUE}

\* middleware(request), for a request of client c.
middleware(c, pathname, cookie) ==
    /\ sent' = MiddlewareResponse(PageRequest(c, pathname, cookie),
                                  redirectsToLogin(pathname, cookie))
    /\ UNCHANGED <<env, purchase_events, user_points, nextId, clock, awarding,
                   awardLog, requests, stripe, initiated, reading, clients>>

\* ------------------------------------------------------ the specification
Init ==
    /\ env \in Environments
    /\ purchase_events = {}
    /\ user_points = {}
    /\ nextId = 1
    /\ clock = 1
    /\ awarding = EmptyBag
    /\ sent = NoResponse
    /\ awardLog = [s \in {c.id : c \in checkoutSessions} |-> 0]
    /\ requests = 0
    /\ stripe = {}
    /\ initiated = {}
    /\ reading = {}
    /\ clients = [c \in Clients |-> NewClient]

Next ==
    \/ \E r \in webhookRequests : WebhookPost(r, BOOLEAN)
    \/ \E x \in BagToSet(awarding) : WebhookAward(x, BOOLEAN)
    \/ \E r \in cancellationRequests : CancellationPost(r, BOOLEAN)

Spec == Init /\ [][Next]_vars

\* Notifications alone, with the storage available throughout.
NextDeliveries ==
    \/ \E r \in webhookRequests : WebhookPost(r, {TRUE})
    \/ \E x \in BagToSet(awarding) : WebhookAward(x, {TRUE})

SpecDeliveries == Init /\ [][NextDeliveries]_vars

\* Purchases from the checkout page to the award: sessions created by
\* checkout_sessions, and their notifications processed with the webhook
\* secret configured and the storage available.
InitCheckout == Init /\ ~Falsy(webhookSecret)

NextCheckout ==
    \/ \E body \in checkoutRequests : CheckoutPost(body, BOOLEAN)
    \/ \E s \in stripe \cup otherSessions :
          WebhookPost(completedNotification(s), {TRUE})
    \/ \E x \in BagToSet(awarding) : WebhookAward(x, {TRUE})

SpecCheckout == InitCheckout /\ [][NextCheckout]_vars

\* The notifications delivered while the admin endpoints are read.
adminLedgerEvents ==
    {completedNotification(TheSession(id)) : id \in {"cs_1", "cs_2", "cs_3"}}

\* The admin read endpoints next to the webhook: the ledger is written with
\* the storage available, the reads see it up or unavailable.
InitAdmin ==
    /\ env \in AdminEnvironments
    /\ purchase_events = {}
    /\ user_points = {}
    /\ nextId = 1
    /\ clock = 1
    /\ awarding = EmptyBag
    /\ sent = NoResponse
    /\ awardLog = [s \in {c.id : c \in checkoutSessions} |-> 0]
    /\ requests = 0
    /\ stripe = {}
    /\ initiated = {}
    /\ reading = {}
    /\ clients = [c \in Clients |-> NewClient]

NextAdmin ==
    \/ \E r \in adminLedgerEvents : WebhookPost(r, {TRUE})
    \/ \E x \in BagToSet(awarding) : WebhookAward(x, {TRUE})
    \/ \E r \in adminRequests : AdminRead(r, BOOLEAN)
    \/ \E r \in adminRequests : SellerEventsQuery(r, BOOLEAN)
    \/ \E x \in reading : SellerEventsTotal(x, BOOLEAN)

SpecAdmin == InitAdmin /\ [][NextAdmin]_vars

\* The admin page behind the middleware: logins, logouts and page requests
\* of the clients, in any order.
InitAuth ==
    /\ env \in AuthEnvironments
    /\ purchase_events = {}
    /\ user_points = {}
    /\ nextId = 1
    /\ clock = 1
    /\ awarding = EmptyBag
    /\ sent = NoResponse
    /\ awardLog = [s \in {c.id : c \in checkoutSessions} |-> 0]
    /\ requests = 0
    /\ stripe = {}
    /\ initiated = {}
    /\ reading = {}
    /\ clients = [c \in Clients |-> NewClient]

NextAuth ==
    \/ \E c \in Clients, body \in loginBodies : LoginPost(c, body)
    \/ \E c \in Clients : LogoutPost(c)
    \/ \E c \in Clients, pathname \in pagePaths :
         \E cookie \in presentable(c) : middleware(c, pathname, cookie)

SpecAuth == InitAuth /\ [][NextAuth]_vars

\* ---------------------------------------------- what the claims speak of
RECURSIVE SumOf(_, _)
\* The sum of f[x] over the x of S.
SumOf(f, S) ==
    IF S = {} THEN 0
    ELSE LET x == CHOOSE y \in S : TRUE IN f[x] + SumOf(f, S \ {x})

Customers ==
    {sessionEmail(s) : s \in checkoutSessions} \cup {"unknown@example.com"}

\* totalPoints of a customer: 0 without a balance row.
totalPoints(email) ==
    SumOf([r \in user_points |-> r.total_points],
          {r \in user_points : r.email = email})

\* pointsAwarded of a ledger row, an SQL NULL counting 0 as in SUM().
pointsAwarded(row) ==
    SumOf([n \in row.points_awarded |-> n], row.points_awarded)

\* The ledger rows of a key.
rowsOf(key) == {r \in purchase_events : r.stripe_session_id = key}

\* No notification is in flight.
Quiescent == awarding = EmptyBag

\* The checkout sessions of a customer whose notification awards points.
awardingSessions(email) ==
    {s \in checkoutSessions :
        sessionEmail(s) = email
        /\ awardsPoints(StripeEvent("checkout.session.completed", s))}

\* C1: whatever the number of deliveries of a session's checkout-completed
\* notification, and however they interleave, the customer's totalPoints
\* has grown by the points of the session's product once: every balance is
\* the sum of the product points of the customer's sessions that have been
\* awarded, each counted one time.
C1_OneIncrementPerSession ==
    \A e \in Customers :
        totalPoints(e) =
            SumOf([s \in checkoutSessions |-> pointsToAward(s)],
                  {s \in awardingSessions(e) : awardLog[s.id] >= 1})

\* C2: once no notification is in flight, every customer's totalPoints is
\* the sum of pointsAwarded over the customer's PAYMENT_SUCCESS rows.
C2_BalanceIsSumOfSuccessRows ==
    Quiescent =>
        \A e \in Customers :
            totalPoints(e) =
                SumOf([r \in purchase_events |-> pointsAwarded(r)],
                      {r \in purchase_events :
                          r.email = e /\ r.status = "PAYMENT_SUCCESS"})

\* A step that receives a request.
Receives == requests' = requests + 1

\* The executions a step adds to those awaiting their award.
Enqueued ==
    {x \in BagToSet(awarding') : CopiesIn(x, awarding') > CopiesIn(x, awarding)}

\* A step of the webhook handler that receives request r: it either leaves
\* an execution for r awaiting its award, or it sends the response to r.
WebhookHandles(r) ==
    /\ Receives
    /\ \/ \E x \in Enqueued : x.req = r
       \/ Enqueued = {} /\ sent'.endpoint = "webhook" /\ sent'.req = {r}

\* What the catch of recordPurchaseEvent logged in a step that receives r.
RecordLog(r) ==
    IF Enqueued = {} THEN sent'.log
    ELSE (CHOOSE x \in Enqueued : x.req = r).log

\* The ledger row old with the mutable columns taken from data.
Overwritten(old, data) ==
    [old EXCEPT !.status = data.status,
                !.details = data.details,
                !.product_id = data.productId,
                !.seller_id = CHOOSE n \in data.seller_id : TRUE,
                !.points_awarded = data.pointsAwarded]

C3_OneRowPerKey ==
    \A r1, r2 \in purchase_events :
        r1.stripe_session_id = r2.stripe_session_id => r1 = r2

C3_RepeatOverwrites ==
    \A r \in webhookRequests, old \in purchase_events :
        ( /\ WebhookHandles(r)
          /\ earlyResponse(r, webhookSecret) = 0
          /\ RecordLog(r) = {}
          /\ old.stripe_session_id = eventKey(r.body) )
        => purchase_events' =
             (purchase_events \ {old}) \cup {Overwritten(old, eventData(r.body))}

C4_LedgerFailureIsRetryable ==
    (sent.endpoint = "webhook" /\ RecordFailed(StorageUnavailable) \in sent.log)
    => sent.status >= 500

\* The signature header of r is the provider's signature of r's raw body.
Verifies(r) == r.sig = {Sign(StripeEndpointSecret, r.body)}

C5_Rejects ==
    \A r \in webhookRequests :
        ( /\ WebhookHandles(r)
          /\ r.sig = {} \/ (webhookSecret = StripeEndpointSecret /\ ~Verifies(r)) )
        => /\ Enqueued = {}
           /\ sent'.status = 400
           /\ UNCHANGED <<purchase_events, user_points, nextId, awardLog>>

\* C5: a notification whose signature header is missing, or does not
\* verify against the raw body under the configured secret, is answered
\* 400, and the request writes no ledger row and no balance.
C5_BadSignatureRejected == [][C5_Rejects]_vars

\* The body of cs_2's notification under the signature of cs_1's has been
\* answered 400, with the ledger and the balances holding earlier writes.
C5_Witness ==
    /\ sent.endpoint = "webhook"
    /\ sent.status = 400
    /\ \E r \in sent.req :
          /\ r.body.object.id = "cs_2"
          /\ \E g \in r.sig : g.secret = StripeEndpointSecret /\ g.payload # r.body
    /\ purchase_events # {}
    /\ user_points # {}
    /\ rowsOf("cs_2") = {}

\* A notification the provider signed, received with the secret configured.
Verified(r) == webhookSecret = StripeEndpointSecret /\ Verifies(r)

C6_LatestWins ==
    \A r \in webhookRequests :
        ( /\ WebhookHandles(r)
          /\ Verified(r)
          /\ r.body.type = "payment_intent.payment_failed" )
        => \E row \in purchase_events' :
              /\ \A other \in purchase_events' :
                    other.stripe_session_id = r.body.object.id => other = row
              /\ row.stripe_session_id = r.body.object.id
              /\ row.status = "PAYMENT_FAILED"
              /\ row.details.reason = r.body.object.last_payment_error.message

\* C6: a payment-failed notification, processed with the storage
\* available, leaves exactly one ledger row for its payment-attempt
\* identifier, with status PAYMENT_FAILED and its own failure reason in
\* details; so two of them for one identifier leave the reason of the
\* second.
C6_LatestFailureWins == [][C6_LatestWins]_vars

C7_MissingMetadata ==
    \A r \in webhookRequests :
        ( /\ WebhookHandles(r)
          /\ Verified(r)
          /\ r.body.type = "checkout.session.completed"
          /\ \/ Falsy(r.body.object.metadata.email)
             \/ Falsy(r.body.object.metadata.productId) )
        => /\ Enqueued = {}
           /\ user_points' = user_points
           /\ \E row \in purchase_events' :
                 /\ row.stripe_session_id = r.body.object.id
                 /\ row.status = "ERROR_MISSING_METADATA"
                 /\ row.points_awarded = {0}

\* C7: a checkout-completed notification whose metadata lacks customerId
\* (email) or productId, processed with the storage available, leaves a
\* row for the session with status ERROR_MISSING_METADATA and
\* pointsAwarded 0, and changes no balance.
C7_MissingMetadataRecorded == [][C7_MissingMetadata]_vars

C8_UnknownProduct ==
    \A r \in webhookRequests :
        ( /\ WebhookHandles(r)
          /\ Verified(r)
          /\ r.body.type = "checkout.session.completed"
          /\ ~Falsy(r.body.object.metadata.email)
          /\ ~Falsy(r.body.object.metadata.productId)
          /\ \A i \in 1..Len(products) :
                products[i].id # r.body.object.metadata.productId )
        => /\ Enqueued = {}
           /\ user_points' = user_points
           /\ awardLog' = awardLog
           /\ sent'.status = 200
           /\ RecordLog(r) = {} =>
                \E row \in purchase_events' :
                    /\ row.stripe_session_id = r.body.object.id
                    /\ row.status = "ERROR_PRODUCT_NOT_FOUND"
                    /\ row.product_id = r.body.object.metadata.productId

\* C8: a checkout-completed notification that names a customer and a
\* productId that is not in the catalog changes no balance and, its
\* statement having returned, leaves the session's row with status
\* ERROR_PRODUCT_NOT_FOUND.
C8_UnknownProductRecorded == [][C8_UnknownProduct]_vars

\* The notification of cs_5 (prod_99euro) has been recorded and answered,
\* next to a balance that an earlier notification had credited.
C8_Witness ==
    /\ sent.endpoint = "webhook"
    /\ sent.status = 200
    /\ sent.log = {}
    /\ \E r \in sent.req : r.body.object.id = "cs_5"
    /\ \E row \in purchase_events :
          row.stripe_session_id = "cs_5" /\ row.status = "ERROR_PRODUCT_NOT_FOUND"
    /\ totalPoints("b@x.it") = 20

\* C9: updateUserPoints creates the balance row if absent and adds its
\* delta in one step: under every interleaving each customer has at most
\* one balance row and its totalPoints is the sum of the deltas of all
\* the invocations that returned for that customer, and of no other.
C9_NoLostUpdate ==
    /\ \A r \in user_points : r.email \in Customers
    /\ \A e \in Customers :
          /\ Cardinality({r \in user_points : r.email = e}) <= 1
          /\ totalPoints(e) =
                SumOf([s \in checkoutSessions |-> awardLog[s.id] * pointsToAward(s)],
                      {s \in checkoutSessions : sessionEmail(s) = e})
          /\ (\E r \in user_points : r.email = e)
                <=> \E s \in checkoutSessions :
                        sessionEmail(s) = e /\ awardLog[s.id] > 0

\* Two invocations for b@x.it (20 and 30 points) and one for a@x.it (10)
\* have returned.
C9_Witness ==
    /\ totalPoints("b@x.it") = 50
    /\ totalPoints("a@x.it") = 10
    /\ awardLog["cs_2"] = 1 /\ awardLog["cs_6"] = 1 /\ awardLog["cs_1"] = 1

\* The executions whose award a step performs.
Dequeued ==
    {x \in BagToSet(awarding) : CopiesIn(x, awarding) > CopiesIn(x, awarding')}

C10_IncrementFailure ==
    \A x \in Dequeued :
        PointsFailed(StorageUnavailable) \in sent'.log
        => /\ sent'.req = {x.req}
           /\ sent'.status = 200
           /\ purchase_events' = purchase_events
           /\ user_points' = user_points
           /\ x.log = {} =>
                \E row \in purchase_events' :
                    /\ row.stripe_session_id = x.req.body.object.id
                    /\ row.status = "PAYMENT_SUCCESS"
                    /\ row.points_awarded = {pointsToAward(x.req.body.object)}

\* C10: when the balance increment fails after the PAYMENT_SUCCESS row was
\* written, the step leaves the ledger as it is (the row keeps
\* PAYMENT_SUCCESS and its pointsAwarded), leaves every balance as it is,
\* logs the failure and acknowledges the notification with 200.
C10_IncrementFailureNotRolledBack == [][C10_IncrementFailure]_vars

\* The award of cs_1 failed: answered 200, row kept, nothing credited.
C10_Witness ==
    /\ sent.endpoint = "webhook"
    /\ sent.status = 200
    /\ sent.log = {PointsFailed(StorageUnavailable)}
    /\ \E r \in sent.req : r.body.object.id = "cs_1"
    /\ \E row \in purchase_events :
          /\ row.stripe_session_id = "cs_1"
          /\ row.status = "PAYMENT_SUCCESS"
          /\ row.points_awarded = {10}
    /\ totalPoints("a@x.it") = 0

C11_NotProcessed ==
    \A r \in webhookRequests :
        (WebhookHandles(r) /\ Falsy(webhookSecret))
        => /\ sent'.status \in {400, 500}
           /\ r.sig # {} => sent'.status = 500
           /\ Enqueued = {}
           /\ purchase_events' = purchase_events
           /\ user_points' = user_points

C11_NothingAwarded ==
    Falsy(webhookSecret) => (awarding = EmptyBag /\ user_points = {})

\* C11: with STRIPE_WEBHOOK_SECRET unset, every webhook request is answered
\* with an error status, 500 when it carries a signature header, and writes
\* no ledger row and no balance; no handler ever gets to award points and
\* no balance row ever exists.
C11_SecretNotConfigured ==
    /\ []C11_NothingAwarded
    /\ [][C11_NotProcessed]_vars

\* With the secret unset, the notification of cs_1 as the provider signed
\* it has been answered 500.
C11_Witness ==
    /\ Falsy(webhookSecret)
    /\ sent.endpoint = "webhook"
    /\ sent.status = 500
    /\ sent.req = {WebhookRequest(StripeEvent("checkout.session.completed", TheSession("cs_1")),
                                  {Sign(StripeEndpointSecret,
                                        StripeEvent("checkout.session.completed",
                                                    TheSession("cs_1")))})}
    /\ user_points = {}

\* C12: every ledger row whose status is not PAYMENT_SUCCESS has
\* pointsAwarded 0, and a PAYMENT_FAILED row has productId null.
C12_NoPointsUnlessSuccess ==
    \A row \in purchase_events :
        row.status # "PAYMENT_SUCCESS"
        => /\ row.points_awarded = {0}
           /\ row.status = "PAYMENT_FAILED" => row.product_id = NULL

\* C13: the status of every ledger row, whichever handler wrote it, is one
\* of the six of the ledger's status enumeration.
C13_StatusEnumeration ==
    \A row \in purchase_events :
        row.status \in {"INITIATED", "PAYMENT_SUCCESS", "PAYMENT_FAILED", "CANCELLED",
                        "ERROR_MISSING_METADATA", "ERROR_PRODUCT_NOT_FOUND"}

\* C16: the customer on the ledger row of a checkout session, and the
\* customer of every balance row, is the email of a session's metadata;
\* the row of a session whose metadata has none carries the placeholder
\* and never a value of another field of the notification.
C16_CustomerFromMetadata ==
    /\ \A s \in checkoutSessions : \A row \in rowsOf(s.id) :
          \/ row.email = s.metadata.email
          \/ Falsy(s.metadata.email) /\ row.email = "unknown@example.com"
    /\ \A b \in user_points :
          \E s \in checkoutSessions :
              s.metadata.email = b.email /\ awardLog[s.id] > 0

C17_Unrecognized ==
    \A r \in webhookRequests :
        ( /\ WebhookHandles(r)
          /\ Verified(r)
          /\ r.body.type \notin {"checkout.session.completed",
                                 "payment_intent.payment_failed"} )
        => /\ sent'.status \in 200..299
           /\ sent'.log = {}
           /\ Enqueued = {}
           /\ purchase_events' = purchase_events
           /\ user_points' = user_points

\* C17: a verified notification of a type other than checkout-completed
\* and payment-failed is answered 2xx and leaves the ledger and every
\* balance as they were.
C17_UnrecognizedAcknowledged == [][C17_Unrecognized]_vars

\* charge.refunded has been answered 200 next to a ledger and a balance
\* that earlier notifications had written.
C17_Witness ==
    /\ sent.endpoint = "webhook"
    /\ sent.status = 200
    /\ \E r \in sent.req : r.body.type = "charge.refunded"
    /\ \E row \in purchase_events : row.status = "PAYMENT_SUCCESS"
    /\ user_points # {}

C18_PaymentFailed ==
    \A r \in webhookRequests :
        ( /\ WebhookHandles(r)
          /\ Verified(r)
          /\ r.body.type = "payment_intent.payment_failed" )
        => /\ user_points' = user_points
           /\ \E row \in purchase_events' :
                 /\ row.stripe_session_id = r.body.object.id
                 /\ row.status = "PAYMENT_FAILED"

\* C18: processing a payment-failed notification, the storage available,
\* writes the row of the payment-attempt identifier with status
\* PAYMENT_FAILED and leaves every balance as it was.
C18_PaymentFailedFrame == [][C18_PaymentFailed]_vars

\* The catalog entry of a productId that is in the catalog.
catalogEntry(productId) ==
    products[CHOOSE i \in 1..Len(products) : products[i].id = productId]

\* The sessions whose notifications the webhook receives.
paidSessions == stripe \cup otherSessions

\* Two bodies that differ at most in the points and price the client put in.
SamePurchase(b1, b2) ==
    /\ b1.email = b2.email
    /\ b1.productId = b2.productId
    /\ b1.sellerId = b2.sellerId

\* C14: the amount charged, the pointsAwarded and price_paid of a
\* PAYMENT_SUCCESS row and every balance are those of the catalog entry of
\* the session's productId, whatever points and price the client put into
\* the request and whatever points the metadata names; two purchases that
\* differ only in those values are charged and awarded the same.
C14_CatalogDecides ==
    /\ \A s \in stripe :
          s.amount_total = catalogEntry(s.metadata.productId).price * 100
    /\ \A i1 \in initiated, i2 \in initiated : \A s1 \in stripe, s2 \in stripe :
          ( /\ SamePurchase(i1.body, i2.body)
            /\ s1.id = i1.sessionId
            /\ s2.id = i2.sessionId )
          => /\ s1.amount_total = s2.amount_total
             /\ s1.metadata = s2.metadata
             /\ \A r1 \in rowsOf(s1.id), r2 \in rowsOf(s2.id) :
                   r1.points_awarded = r2.points_awarded
    /\ \A s \in paidSessions : \A row \in rowsOf(s.id) :
          row.status = "PAYMENT_SUCCESS"
          => /\ row.points_awarded = {catalogEntry(s.metadata.productId).points}
             /\ row.details.price_paid = catalogEntry(s.metadata.productId).price
    /\ \A e \in Customers :
          totalPoints(e) =
              SumOf([s \in paidSessions |->
                        awardLog[s.id] * catalogEntry(s.metadata.productId).points],
                    {s \in paidSessions : s.metadata.email = e})

\* Two purchases of prod_20euro by a@x.it, one of them posted with points
\* 9999 and price 1, have both been paid, recorded and awarded.
C14_Witness ==
    /\ \E i1 \in initiated, i2 \in initiated :
          /\ i1.body.points = {} /\ i2.body.points = {9999} /\ i2.body.price = {1}
          /\ SamePurchase(i1.body, i2.body)
          /\ \E r1 \in rowsOf(i1.sessionId), r2 \in rowsOf(i2.sessionId) :
                /\ r1.status = "PAYMENT_SUCCESS" /\ r1.points_awarded = {10}
                /\ r2.status = "PAYMENT_SUCCESS" /\ r2.points_awarded = {10}
          /\ awardLog[i1.sessionId] = 1 /\ awardLog[i2.sessionId] = 1
    /\ totalPoints("a@x.it") = 20

\* The sellerId a checkout page supplied: 0 when it had none.
suppliedSellerId(body) ==
    parseInt(IF body.sellerId = <<>> THEN <<0>> ELSE body.sellerId)

\* C15: the ledger row of a completed checkout carries the customer, the
\* product and the sellerId supplied when the purchase was initiated (0
\* when none was), which the session's metadata carried to the webhook.
C15_SellerIdCarried ==
    \A i \in initiated : \A row \in rowsOf(i.sessionId) :
        row.status = "PAYMENT_SUCCESS"
        => /\ row.email = i.body.email
           /\ row.product_id = i.body.productId
           /\ row.seller_id = suppliedSellerId(i.body)

\* The rows of a sequence of rows.
Range(seq) == {seq[i] : i \in 1..Len(seq)}

\* C19: a 200 response of the seller-events endpoint holds only
\* PAYMENT_SUCCESS rows of the requested seller, of the requested month
\* when monthYear is given, and its totalVolume is the sum of price_paid
\* over the events of that same response, whatever the webhook does in the
\* meantime.  Stated of deployments that set ADMIN_API_SECRET.
C19_SellerEventsConsistent ==
    ( /\ sent.endpoint = "events/seller"
      /\ sent.status = 200
      /\ ~Falsy(env.ADMIN_API_SECRET) )
    => \A r \in sent.req :
          /\ \A e \in Range(sent.body.events) :
                /\ e.status = "PAYMENT_SUCCESS"
                /\ e.seller_id = parseInt(r.sellerId)
                /\ r.monthYear # <<>> =>
                      /\ calendar(e.timestamp).year = parseInt(r.monthYear[1])
                      /\ calendar(e.timestamp).month = parseInt(r.monthYear[2])
          /\ sent.body.totalVolume = SumOfPrices(Range(sent.body.events))

\* The secret a request supplies, in the header or in the query.
suppliedSecret(r) == OrElse(r.header, r.secret)

\* A body without ledger or balance data.
NoData(body) == DOMAIN body \subseteq {"error", "message"}

\* C20: outside development, an admin read request whose secret is not the
\* value of ADMIN_API_SECRET is answered 401 without ledger or balance
\* data.  The 500 of a read that found the storage unavailable is set
\* aside.
C20_WrongSecretUnauthorized ==
    ( /\ sent.endpoint \in {"events/all", "user/events", "user/points", "events/seller"}
      /\ env.NODE_ENV # "development"
      /\ sent.status # 500 )
    => \A r \in sent.req :
          suppliedSecret(r) # env.ADMIN_API_SECRET
          => (sent.status = 401 /\ NoData(sent.body))

\* The part of C20 that holds.  With ADMIN_API_SECRET set, outside
\* development, a request whose secret
\* is another value is answered 401 without data.
C20_WithSecretSet ==
    ( /\ sent.endpoint \in {"events/all", "user/events", "user/points", "events/seller"}
      /\ env.NODE_ENV # "development"
      /\ ~Falsy(env.ADMIN_API_SECRET) )
    => \A r \in sent.req :
          suppliedSecret(r) # env.ADMIN_API_SECRET
          => (sent.status = 401 /\ NoData(sent.body))

\* ------------------------------------------------------------- C21 .. C30
\* A step of the log-cancellation handler that receives request r: the
\* step of a notification that awaits its award sends no response.
CancellationHandles(r) ==
    /\ Receives
    /\ Enqueued = {}
    /\ sent'.endpoint = "log-cancellation"
    /\ sent'.req = {r}

\* The request carries the secret the deployment is configured with.
CancellationAuthorized(r) ==
    /\ ~Falsy(env.NEXT_PUBLIC_ADMIN_API_SECRET)
    /\ r.secret = env.NEXT_PUBLIC_ADMIN_API_SECRET

\* The ids of the catalog.
catalogIds == {products[i].id : i \in 1..Len(products)}

C21_Unauthorized ==
    \A r \in cancellationRequests :
        (CancellationHandles(r) /\ ~CancellationAuthorized(r))
        => sent'.status = 401 /\ purchase_events' = purchase_events

C21_BadRequest ==
    \A r \in cancellationRequests :
        ( /\ CancellationHandles(r)
          /\ CancellationAuthorized(r)
          /\ \/ Falsy(r.email) \/ Falsy(r.productId) \/ Falsy(r.stripeSessionId)
             \/ r.productId \notin catalogIds )
        => sent'.status = 400 /\ purchase_events' = purchase_events

\* C21: a log-cancellation request whose X-Admin-API-Secret is missing or
\* is not the configured one is answered 401; an authorized one without
\* email, productId or stripeSessionId, or whose productId is not in the
\* catalog, is answered 400; in all these cases the ledger is left as it
\* was.
C21_CancellationRejected ==
    [][C21_Unauthorized /\ C21_BadRequest]_vars

\* The ledger holds a row and the last response is the 401 of a
\* cancellation request with a wrong secret.
C21_Witness ==
    /\ purchase_events # {}
    /\ sent.endpoint = "log-cancellation"
    /\ sent.status = 401
    /\ \E r \in sent.req : r.secret = "adm_guess"

\* A step of the checkout_sessions handler that receives body: no
\* notification is received or awarded in it.
CheckoutHandles(body) ==
    /\ requests' = requests
    /\ awarding' = awarding
    /\ sent'.endpoint = "checkout_sessions"
    /\ sent'.req = {body}

C22_Rejected ==
    \A body \in checkoutRequests :
        CheckoutHandles(body)
        => /\ (Falsy(body.email) \/ Falsy(body.productId))
              => sent'.status = 400 /\ stripe' = stripe
           /\ ( /\ ~Falsy(body.email)
                /\ ~Falsy(body.productId)
                /\ body.productId \notin catalogIds )
              => sent'.status = 404 /\ stripe' = stripe
           /\ \A s \in stripe' \ stripe :
                /\ body.productId \in catalogIds
                /\ s.amount_total = catalogEntry(body.productId).price * 100

C22_SessionsOfCatalog ==
    \A s \in stripe :
        /\ s.metadata.productId \in catalogIds
        /\ s.amount_total = catalogEntry(s.metadata.productId).price * 100

\* C22: a checkout-session request without email or productId is answered
\* 400 and one whose productId is not in the catalog 404, and neither
\* asks the provider for a session; every session the handler creates is
\* for a catalog product and charges the catalog price of that product.
C22_CheckoutRejected ==
    []C22_SessionsOfCatalog /\ [][C22_Rejected]_vars

\* A session exists at the provider and the last response is the 404 of a
\* request for a product outside the catalog.
C22_Witness ==
    /\ stripe # {}
    /\ sent.endpoint = "checkout_sessions"
    /\ sent.status = 404
    /\ \E b \in sent.req : b.productId = "prod_99euro"

\* C23: in no reachable state has a balance been credited for a session
\* whose key has no PAYMENT_SUCCESS row in the ledger: the increment of a
\* notification follows a ledger write that succeeded.
C23_CreditedOnlyAfterRecorded ==
    \A s \in checkoutSessions :
        awardLog[s.id] > 0
        => \E row \in rowsOf(s.id) : row.status = "PAYMENT_SUCCESS"

C24_RepeatKeeps ==
    \A r \in webhookRequests, old \in purchase_events :
        ( /\ WebhookHandles(r)
          /\ earlyResponse(r, webhookSecret) = 0
          /\ old.stripe_session_id = eventKey(r.body) )
        => /\ Cardinality(purchase_events') = Cardinality(purchase_events)
           /\ \E new \in purchase_events' :
                /\ new.stripe_session_id = old.stripe_session_id
                /\ new.id = old.id
                /\ new.email = old.email
                /\ new.timestamp = old.timestamp

\* C24: a notification for an externalSessionId that already has a ledger
\* row leaves the id, the customerId and the timestamp of that row as they
\* were and adds no row.
C24_RepeatKeepsIdentity ==
    [][C24_RepeatKeeps]_vars

\* The notification of cs_1 recorded twice with the storage up: one row,
\* with the id and the timestamp of the first statement.
C24_Witness ==
    /\ awardLog["cs_1"] = 2
    /\ clock = 3
    /\ \E row \in purchase_events :
         /\ purchase_events = {row}
         /\ row.stripe_session_id = "cs_1"
         /\ row.id = 1
         /\ row.timestamp = 1
         /\ row.email = "a@x.it"

\* totalPoints of a customer in table rows.
totalPointsIn(rows, email) ==
    SumOf([r \in rows |-> r.total_points], {r \in rows : r.email = email})

C25_NonNegative ==
    \A r \in user_points : r.total_points \in Nat

C25_Monotone ==
    \A email \in Customers \cup {r.email : r \in user_points'} :
        /\ totalPointsIn(user_points', email) >= totalPointsIn(user_points, email)
        /\ totalPointsIn(user_points', email) # totalPointsIn(user_points, email)
           => \E x \in Dequeued :
                /\ x.req.body.type = "checkout.session.completed"
                /\ eventData(x.req.body).status = "PAYMENT_SUCCESS"
                /\ sessionEmail(x.req.body.object) = email

\* C25: in every reachable state every totalPoints is a non-negative
\* integer; from one state to the next no totalPoints decreases, and one
\* changes only in the step that completes a checkout-completed
\* notification of that customer on its PAYMENT_SUCCESS branch.
C25_BalanceMonotone ==
    []C25_NonNegative /\ [][C25_Monotone]_vars

\* b@x.it has been credited for cs_2 (20 points) and then for cs_6 (30).
C25_Witness ==
    /\ totalPoints("b@x.it") = 50
    /\ awardLog["cs_2"] = 1
    /\ awardLog["cs_6"] = 1

\* The rows of table rows whose key is not key.
rowsExcept(rows, key) == {row \in rows : row.stripe_session_id # key}

C26_OwnRow ==
    /\ \A r \in webhookRequests :
         WebhookHandles(r)
         => IF earlyResponse(r, webhookSecret) # 0
            THEN purchase_events' = purchase_events
            ELSE rowsExcept(purchase_events', eventKey(r.body))
                 = rowsExcept(purchase_events, eventKey(r.body))
    /\ Dequeued # {} => purchase_events' = purchase_events

\* C26: processing a notification changes at most the ledger row whose
\* externalSessionId is the notification's own key, the checkout-session
\* id of a completed checkout and the payment-attempt id of a failure;
\* every other row, that of a checkout session under a failure and that of
\* a payment attempt under a completed checkout included, is left as it
\* was.
C26_OnlyOwnRowChanges ==
    [][C26_OwnRow]_vars

\* The ledger holds a row of payment attempt pi_1 and a row of checkout
\* session cs_1, and the last response is that of a payment-failed
\* notification of pi_1 that went past the signature checks.
C26_Witness ==
    /\ rowsOf("pi_1") # {}
    /\ rowsOf("cs_1") # {}
    /\ sent.endpoint = "webhook"
    /\ sent.status = 200
    /\ \E r \in sent.req :
         /\ r.body.type = "payment_intent.payment_failed"
         /\ Verified(r)

\* The request goes past the checks of the handler to its INSERT.
CancellationWellFormed(r) ==
    /\ CancellationAuthorized(r)
    /\ ~Falsy(r.email) /\ ~Falsy(r.productId) /\ ~Falsy(r.stripeSessionId)
    /\ r.productId \in catalogIds

C27_Duplicate ==
    \A r \in cancellationRequests :
        CancellationHandles(r)
        => /\ user_points' = user_points
           /\ (CancellationWellFormed(r) /\ rowsOf(r.stripeSessionId) # {})
              => sent'.status = 500 /\ purchase_events' = purchase_events

\* C27: a log-cancellation request for a session id that already has a
\* ledger row is answered 500 and leaves the ledger as it was; no
\* cancellation request changes a balance.
C27_DuplicateCancellationFails ==
    [][C27_Duplicate]_vars

\* The cancellation request for cs_1 was answered 500 for the unique key
\* while cs_1 has its PAYMENT_SUCCESS row and a@x.it its balance.
C27_Witness ==
    /\ sent.endpoint = "log-cancellation"
    /\ sent.status = 500
    /\ \E l \in sent.log : l.dbError = UniqueViolation
    /\ \E row \in rowsOf("cs_1") : row.status = "PAYMENT_SUCCESS"
    /\ totalPoints("a@x.it") = 10

C28_Sticky ==
    \A row \in purchase_events :
        row.status = "PAYMENT_SUCCESS"
        => \E new \in purchase_events' :
              /\ new.stripe_session_id = row.stripe_session_id
              /\ new.status = "PAYMENT_SUCCESS"
              /\ new.points_awarded = row.points_awarded

\* C28: a ledger row that has status PAYMENT_SUCCESS keeps that status and
\* its pointsAwarded in every later state, whatever notification is
\* redelivered, whatever payment-failed notification arrives and whatever
\* cancellation request is made.
C28_SuccessIsFinal ==
    [][C28_Sticky]_vars

\* The notification of cs_1 has been recorded and awarded twice, and a
\* cancellation request for cs_1 has been refused since; the row of cs_1
\* is PAYMENT_SUCCESS with 10 points.
C28_Witness ==
    /\ awardLog["cs_1"] = 2
    /\ sent.endpoint = "log-cancellation"
    /\ sent.status = 500
    /\ \E r \in sent.req : r.stripeSessionId = "cs_1"
    /\ \E row \in rowsOf("cs_1") :
         row.status = "PAYMENT_SUCCESS" /\ row.points_awarded = {10}

\* C29: every PAYMENT_SUCCESS row of a session whose customer has been
\* credited names that customer as its customerId, also when the row of
\* the session id was first written by a cancellation request or an
\* earlier notification with another customerId.
C29_RowNamesCreditedCustomer ==
    \A s \in checkoutSessions : \A row \in rowsOf(s.id) :
        (row.status = "PAYMENT_SUCCESS" /\ awardLog[s.id] > 0)
        => row.email = sessionEmail(s)

\* A step of the middleware on request r.
MiddlewareHandles(r) ==
    /\ sent'.endpoint = "middleware"
    /\ sent'.req = {r}
    /\ clients' = clients

\* The requests the middleware can see.
pageRequests ==
    {PageRequest(c, pathname, cookie) :
        c \in Clients, pathname \in pagePaths,
        cookie \in UNION {presentable(c) : c \in Clients}}

\* The session of a cookie has isAdmin set.
sessionIsAdmin(cookie) ==
    /\ ~sessionThrows(env.SESSION_SECRET)
    /\ ironSession(cookie, env.SESSION_SECRET).isAdmin = {TRUE}

\* The step redirects to /login, or passes the request on.
Redirected == sent'.status = 307 /\ sent'.location = <<"login">>
PassedThrough == sent'.status = 0

\* A request to an /admin path with authentication enabled.
Guarded(r) == env.ADMIN_AUTH_ENABLED = "true" /\ r.pathname[1] = "admin"

C30_Gate ==
    \A r \in pageRequests :
        (MiddlewareHandles(r) /\ Guarded(r))
        => IF sessionIsAdmin(r.cookie) THEN PassedThrough ELSE Redirected

C30_SetByLoginClearedByLogout ==
    \A c \in Clients :
        /\ (sessionIsAdmin(clients'[c].jar) /\ ~sessionIsAdmin(clients[c].jar))
           => /\ sent'.endpoint = "auth/login"
              /\ sent'.status = 200
              /\ \E r \in sent'.req :
                   /\ r.client = c
                   /\ r.body.username = env.ADMIN_USERNAME
                   /\ r.body.password = env.ADMIN_PASSWORD
        /\ ( /\ clients'[c].last = "logout"
             /\ clients[c] # clients'[c] )
           => ~sessionIsAdmin(clients'[c].jar)

C30_AfterLogout ==
    \A r \in pageRequests :
        ( /\ MiddlewareHandles(r)
          /\ Guarded(r)
          /\ clients[r.client].last = "logout" )
        => Redirected

\* C30: with admin authentication enabled, a request to an /admin path is
\* passed on only when its session has isAdmin set and is redirected to
\* /login otherwise; isAdmin is set only by a login with the configured
\* username and password and cleared by logout; and after a client's
\* logout each of its /admin requests is redirected until its next
\* successful login.
C30_AdminRequiresLogin ==
    [][C30_Gate /\ C30_SetByLoginClearedByLogout /\ C30_AfterLogout]_vars

\* The gate and the setting and clearing of isAdmin, without the
\* consequence drawn for the requests after a logout.
C30_GateAndLogin ==
    [][C30_Gate /\ C30_SetByLoginClearedByLogout]_vars

\* After a client's logout, each of its /admin requests that carries the
\* cookie its browser holds is redirected.
C30_BrowserAfterLogout ==
    [][\A r \in pageRequests :
          ( /\ MiddlewareHandles(r)
            /\ Guarded(r)
            /\ clients[r.client].last = "logout"
            /\ r.cookie = clients[r.client].jar )
          => Redirected]_vars

====
